---- MODULE Spec2Model ----
(***************************************************************************)
(* Model of the cherry-pick action: the run() orchestrator of index.ts,    *)
(* and cherryPick, createPullRequest and the branch catalog of             *)
(* github-helper.ts.                                                       *)
(*                                                                         *)
(* A JavaScript string is modelled as a sequence of text fragments, so     *)
(* that concatenation is \o and String.includes is fragment membership.    *)
(* An array of strings is a sequence of such sequences.  Arrays that the   *)
(* code shares by reference (inputs.labels, originalLabels, appliedLabels) *)
(* live in a heap and are named by their index in it.                      *)
(***************************************************************************)
EXTENDS Integers, Sequences, FiniteSets, TLC

\* ------------------------------------------------------------------ bounds
\* Longest remote branch listing the model draws.
MaxBranches == 2

\* The largest major and patch number of the branch names compared.
MaxVersion == 1

\* How many times in a row a catalog function is called on the same remote.
MaxCalls == 2

\* ------------------------------------------------------- program constants
CHERRYPICK_EMPTY == "The previous cherry-pick is now empty, possibly due to conflict resolution."

CHERRYPICK_UNRESOLVED_CONFLICT == "After resolving the conflicts, mark them with"

ERROR_PR_REVIEW_FROM_AUTHOR == "Review cannot be requested from pull request author"

\* ----------------------------------------------------------------- strings
Str(t) == <<t>>

EmptyStr == <<>>

\* A comparison with the marker where a search for it is meant.
IncludesExactly(s, marker) == s = <<marker>>

\* String.prototype.includes for one marker fragment.
Includes(s, marker) == \E i \in 1..Len(s) : s[i] = marker

\* The label cherryPick pushes on a conflict.
ConflictLabel == Str("conflict")

\* ------------------------------------------------------------ input domains
\* Exit codes a git process may return.
ExitCodes == {0, 1}

\* Error texts a cherry-pick process may write to stderr.
StderrTexts ==
  { EmptyStr,
    Str("fatal: bad object"),
    Str(CHERRYPICK_UNRESOLVED_CONFLICT),
    Str(CHERRYPICK_EMPTY),
    <<"error: could not apply. hint: ", CHERRYPICK_UNRESOLVED_CONFLICT, " git add">>,
    <<CHERRYPICK_UNRESOLVED_CONFLICT, CHERRYPICK_EMPTY>> }

\* Branch names, one character per fragment.
Branch100 == <<"r", "/", "1", ".", "0", ".", "0">>

Branch110 == <<"r", "/", "1", ".", "1", ".", "0">>

Branch200 == <<"r", "/", "2", ".", "0", ".", "0">>

Branch201 == <<"r", "/", "2", ".", "0", ".", "1">>

BranchNames == {Branch100, Branch110, Branch200, Branch201}

\* The configured branch: a pattern for fan-out, or a single target branch.
BranchPattern == Str("r")

\* merge_commit_sha of the triggering pull request.
GithubSha == Str("XXXXXX")

\* Label lists the run may be configured with.
LabelLists == {<<>>, <<Str("bug")>>}

\* Label lists the triggering pull request may carry.
PrLabelLists == {<<>>, <<Str("bug"), Branch110>>}

\* Non-empty cherry-pick-branch override.
CustomBranch == Str("my-custom-branch")

\* ------------------------------------------------------------ gitExecution
GitOutput(exitCode, stdout, stderr) ==
  [exitCode |-> exitCode, stdout |-> stdout, stderr |-> stderr]

\* What any git process may return, as far as a caller that ignores the
\* texts is concerned.
PlainOutputs == { GitOutput(e, EmptyStr, EmptyStr) : e \in ExitCodes }

\* What the cherry-pick process may return.
CherryPickOutputs ==
  { GitOutput(e, EmptyStr, t) : e \in ExitCodes, t \in StderrTexts }

\* exec() of @actions/exec rejects on a nonzero exit code unless
\* ignoreReturnCode is set; gitExecution adds nothing to that.
GitExecutionThrowsIgnoringFlag(ignoreReturnCode, out) == out.exitCode # 0

GitExecutionThrows(ignoreReturnCode, out) ==
  ~ignoreReturnCode /\ out.exitCode # 0

ExecFailureMessage(out) ==
  <<"The process 'git' failed with exit code ", ToString(out.exitCode)>>

\* ---------------------------------------------------------------- cherryPick
GetCherryPickParamsUnconditional(unresolvedConflict, githubSha) ==
  <<Str("cherry-pick"), Str("-m"), Str("1"), Str("--strategy=recursive"),
    Str("--strategy-option=theirs")>>
  \o (IF githubSha # EmptyStr THEN <<githubSha>> ELSE <<>>)

GetCherryPickParams(unresolvedConflict, githubSha) ==
  <<Str("cherry-pick"), Str("-m"), Str("1"), Str("--strategy=recursive")>>
  \o (IF ~unresolvedConflict THEN <<Str("--strategy-option=theirs")>> ELSE <<>>)
  \o (IF githubSha # EmptyStr THEN <<githubSha>> ELSE <<>>)

AddAllParams == <<Str("add"), Str(".")>>

\* The commit message of the earlier version of the action.
CommitParamsResolveConflict == <<Str("commit"), Str("-m"), Str("Resolve conflict")>>

CommitParams == <<Str("commit"), Str("-m"), Str("leave conflicts unresolved")>>

\* The first arm of cherryPick's if: the conflict is left unresolved.
IsConflictAnyStrategy(unresolvedConflict, result) ==
  Includes(result.stderr, CHERRYPICK_UNRESOLVED_CONFLICT)

IsConflict(unresolvedConflict, result) ==
  unresolvedConflict /\ Includes(result.stderr, CHERRYPICK_UNRESOLVED_CONFLICT)

\* The else-if arm: the cherry-pick failed and not because it is empty.
IsUnexpectedIgnoringEmpty(result) == result.exitCode # 0

IsUnexpectedIgnoringExit(result) == ~Includes(result.stderr, CHERRYPICK_EMPTY)

\* An arm taken for any error text but the empty-commit one, whatever the
\* exit code.
IsUnexpectedOnAnyText(result) ==
  result.stderr # EmptyStr /\ ~Includes(result.stderr, CHERRYPICK_EMPTY)

\* An arm that is never taken: every cherry-pick result lets the run go on.
IsUnexpectedNever(result) == FALSE

IsUnexpected(result) ==
  result.exitCode # 0 /\ ~Includes(result.stderr, CHERRYPICK_EMPTY)

UnexpectedMessageRaw(result) == result.stderr

UnexpectedMessage(result) == <<"Unexpected error: ">> \o result.stderr

\* Which arm of cherryPick's if a result takes.
OutcomeOf(unresolvedConflict, result) ==
  IF IsConflict(unresolvedConflict, result) THEN "Conflict"
  ELSE IF IsUnexpected(result) THEN "Fatal"
  ELSE "Continue"

\* ------------------------------------------------------------ branch catalog
\* String.prototype.split on a one-fragment separator.
RECURSIVE Split(_, _)
Split(s, sep) ==
  IF \A i \in 1..Len(s) : s[i] # sep
  THEN <<s>>
  ELSE LET i == CHOOSE k \in 1..Len(s) :
                  s[k] = sep /\ \A j \in 1..(k - 1) : s[j] # sep
       IN  <<SubSeq(s, 1, i - 1)>> \o Split(SubSeq(s, i + 1, Len(s)), sep)

\* String.prototype.replace(/x/g, ''): every occurrence of the fragment goes.
RemoveAll(s, frag) == SelectSeq(s, LAMBDA c : c # frag)

\* String.prototype.replace('x', ''): only the first occurrence goes.
RemoveFirst(s, frag) ==
  IF \A i \in 1..Len(s) : s[i] # frag
  THEN s
  ELSE LET i == CHOOSE k \in 1..Len(s) :
                  s[k] = frag /\ \A j \in 1..(k - 1) : s[j] # frag
       IN  SubSeq(s, 1, i - 1) \o SubSeq(s, i + 1, Len(s))

\* Number(): NaN is modelled as -1, no version component being negative.
NaN == 0 - 1

DigitValue(c) ==
  CASE c = "0" -> 0 [] c = "1" -> 1 [] c = "2" -> 2 [] c = "3" -> 3
    [] c = "4" -> 4 [] c = "5" -> 5 [] c = "6" -> 6 [] c = "7" -> 7
    [] c = "8" -> 8 [] c = "9" -> 9 [] OTHER -> NaN

RECURSIVE DigitsValue(_)
DigitsValue(s) ==
  IF s = <<>> THEN 0
  ELSE DigitsValue(SubSeq(s, 1, Len(s) - 1)) * 10 + DigitValue(s[Len(s)])

Number(s) ==
  IF \E i \in 1..Len(s) : DigitValue(s[i]) = NaN THEN NaN ELSE DigitsValue(s)

\* version[i] of a JavaScript array: undefined past the end, and undefined
\* compares like NaN.
At(version, i) == IF i <= Len(version) THEN version[i] ELSE NaN

JsLess(a, b) == a # NaN /\ b # NaN /\ a < b

\* branch.split('/')[1] is undefined when the name has no '/', and
\* undefined.split throws a TypeError.
HasVersionPart(branch) == Len(Split(branch, "/")) >= 2

ParseVersion(branch) ==
  LET parts == Split(Split(branch, "/")[2], ".")
  IN  [i \in 1..Len(parts) |-> Number(parts[i])]

RECURSIVE CompareFrom(_, _, _)
CompareFrom(version1, version2, i) ==
  IF i > 3 THEN FALSE
  ELSE IF JsLess(At(version1, i), At(version2, i)) THEN FALSE
  ELSE IF JsLess(At(version2, i), At(version1, i)) THEN TRUE
  ELSE CompareFrom(version1, version2, i + 1)

IsBranchNewerThrows(currentBranch, branch) ==
  ~HasVersionPart(branch) \/ ~HasVersionPart(currentBranch)

\* A comparison that also answers true for the same version.
IsBranchNewerOrSame(currentBranch, branch) ==
  ~CompareFrom(ParseVersion(currentBranch), ParseVersion(branch), 1)

\* A comparison of major and minor only.
IsBranchNewerMajorMinor(currentBranch, branch) ==
  CompareFrom(SubSeq(ParseVersion(branch), 1, 2),
              SubSeq(ParseVersion(currentBranch), 1, 2), 1)

\* A comparison that answers true when any component is greater.
IsBranchNewerAnyComponent(currentBranch, branch) ==
  \E i \in 1..3 : JsLess(At(ParseVersion(currentBranch), i),
                         At(ParseVersion(branch), i))

IsBranchNewer(currentBranch, branch) ==
  CompareFrom(ParseVersion(branch), ParseVersion(currentBranch), 1)

\* What `git for-each-ref --format='%(refname:short)'` prints for a catalog.
RECURSIVE ForEachRefStdout(_)
ForEachRefStdout(catalog) ==
  IF catalog = <<>> THEN EmptyStr
  ELSE <<"'", "origin/">> \o Head(catalog) \o <<"'", "\n">>
       \o ForEachRefStdout(Tail(catalog))

\* A parse that keeps the `origin/` prefix.
ParseBranchesKeepingPrefix(stdout) ==
  LET lines == Split(stdout, "\n")
      clean == [i \in 1..Len(lines) |-> RemoveAll(lines[i], "'")]
  IN  SelectSeq(clean, LAMBDA b : b # EmptyStr)

ParseBranches(stdout) ==
  LET lines == Split(stdout, "\n")
      clean == [i \in 1..Len(lines) |->
                  RemoveFirst(RemoveAll(lines[i], "'"), "origin/")]
  IN  SelectSeq(clean, LAMBDA b : b # EmptyStr)

GetAllBranchesParams(branchPattern) ==
  <<Str("for-each-ref"), Str("--format='%(refname:short)'"),
    <<"refs/remotes/origin/">> \o branchPattern>>

NewerBranchesThrows(allBranches, currentBranch) ==
  \E i \in 1..Len(allBranches) :
     allBranches[i] # EmptyStr /\ IsBranchNewerThrows(currentBranch, allBranches[i])

\* A selection returned newest-listed first.
NewerBranchesReversed(allBranches, currentBranch) ==
  LET kept == SelectSeq(allBranches,
                        LAMBDA b : b # EmptyStr /\ IsBranchNewer(currentBranch, b))
  IN  [i \in 1..Len(kept) |-> kept[Len(kept) + 1 - i]]

NewerBranches(allBranches, currentBranch) ==
  SelectSeq(allBranches,
            LAMBDA b : b # EmptyStr /\ IsBranchNewer(currentBranch, b))

\* ------------------------------------------------------------------ index.ts
\* A name that is synthesized even when an override is configured.
GetPrBranchNameSynthesized(cherryPickBranch, branch, githubSha) ==
  <<"cherry-pick-">> \o branch \o <<"-">> \o githubSha

GetPrBranchName(cherryPickBranch, branch, githubSha) ==
  IF cherryPickBranch # EmptyStr
  THEN cherryPickBranch
  ELSE <<"cherry-pick-">> \o branch \o <<"-">> \o githubSha

\* A push that is always forced.
PushParamsForced(prBranch, force) ==
  <<Str("push"), Str("-u"), Str("origin"), prBranch, Str("--force")>>

PushParams(prBranch, force) ==
  <<Str("push"), Str("-u"), Str("origin"), prBranch>>
  \o (IF force THEN <<Str("--force")>> ELSE <<>>)

CheckoutParams(prBranch, branch) ==
  <<Str("checkout"), Str("-b"), prBranch, <<"origin/">> \o branch>>

ConfigNameParams ==
  <<Str("config"), Str("--global"), Str("user.name"), Str("<author name>")>>

ConfigEmailParams ==
  <<Str("config"), Str("--global"), Str("user.email"), Str("<committer email>")>>

RemoteUpdateParams == <<Str("remote"), Str("update")>>

FetchAllParams == <<Str("fetch"), Str("--all")>>

\* Bounded sequences over a set.
SeqsUpTo(S, n) == UNION { [1..k -> S] : k \in 0..n }

\* Catalogs the remote may hold when the branches are listed: a remote has
\* one ref per branch name.
Catalogs ==
  { c \in SeqsUpTo(BranchNames, MaxBranches) :
      \A i \in 1..Len(c), j \in 1..Len(c) : c[i] = c[j] => i = j }

\* --------------------------------------------------------------------- heap
\* [...array]: a new array with the same elements.
ArrayCopyAliased(h, src) == [heap |-> h, ref |-> src]

ArrayCopy(h, src) == [heap |-> Append(h, h[src]), ref |-> Len(h) + 1]

\* array.push(x)
\* A push that leaves the array as it was.
ArrayPushNothing(h, ref, x) == h

ArrayPush(h, ref, x) == [h EXCEPT ![ref] = Append(h[ref], x)]

\* ------------------------------------------------------------------- state
VARIABLES
  pc,              \* the statement of run() that executes next
  step,            \* the call of run() that executed last
  labelsInput,     \* the labels the run was configured with
  inputs,          \* the Inputs object built by parseInputs
  pull_request,    \* github.context.payload.pull_request
  heap,            \* the label arrays, by reference
  originalLabels,  \* reference of run's originalLabels (0: not yet assigned)
  originalDraft,   \* run's originalDraft
  branches,        \* the branches run iterates over
  idx,             \* how many of them the for-of loop has taken
  branch,          \* the loop variable
  prBranch,        \* run's prBranch of the current iteration
  cmds,            \* the params of every gitExecution call, in call order
  result,          \* the git output a helper holds in `result`, until run's next call
  api,             \* the host API calls of the current iteration, in call order
  pulls,           \* the change requests created so far, in creation order
  failed,          \* core.setFailed: whether it was called and with what
  cat,             \* a direct call of a branch-catalog function: arguments and outcome
  hostError        \* the host call of the current iteration that was rejected, if any

vars == <<pc, step, labelsInput, inputs, pull_request, heap, originalLabels, originalDraft,
          branches, idx, branch, prBranch, cmds, result, api, pulls, failed, cat,
          hostError>>

NoResult == GitOutput(0, EmptyStr, EmptyStr)

NoFailure == [set |-> FALSE, message |-> EmptyStr]

\* No host call of the iteration was rejected.
NoHostError == [call |-> "none", message |-> EmptyStr]

\* No catalog function was called directly, and none is about to be.
NoCall ==
  [ fn |-> "none", versions |-> <<>>, names |-> <<>>, stdout |-> EmptyStr,
    currentBranch |-> EmptyStr, newer |-> <<>>, threw |-> FALSE, branches |-> <<>>,
    calls |-> 0, remote |-> <<>> ]

\* A catch that drops the error without reporting it.
SetFailedDropped(message) == [set |-> FALSE, message |-> message]

\* core.setFailed(err) in run's catch.
SetFailed(message) == [set |-> TRUE, message |-> message]

\* Who is asked to look at the change requests: nobody, or assignees,
\* reviewers and a team.
PeopleConfigs ==
  { [assignees |-> <<>>, reviewers |-> <<>>, teamReviewers |-> <<>>],
    [assignees |-> <<Str("user1")>>, reviewers |-> <<Str("user2")>>,
     teamReviewers |-> <<Str("team1")>>] }

\* parseInputs: a fan-out run is configured with a branch pattern, a
\* single-target run with a branch name.
ParseInputs(labelsRef, force, inherit, override, unresolved, fanOut, people) ==
  [ branch |-> IF fanOut THEN BranchPattern ELSE Branch110,
    force |-> force,
    labels |-> labelsRef,
    inherit_labels |-> inherit,
    cherryPickBranch |-> override,
    unresolvedConflict |-> unresolved,
    targetNextBranches |-> fanOut,
    draft |-> FALSE,
    assignees |-> people.assignees,
    reviewers |-> people.reviewers,
    teamReviewers |-> people.teamReviewers ]

Init ==
  /\ pc = "configureCommiterAndAuthor"
  /\ step = "parseInputs"
  /\ labelsInput \in LabelLists
  /\ heap = <<labelsInput>>
  /\ \E force \in BOOLEAN, inherit \in BOOLEAN, unresolved \in BOOLEAN,
        fanOut \in BOOLEAN, override \in {EmptyStr, CustomBranch},
        people \in PeopleConfigs :
       inputs = ParseInputs(1, force, inherit, override, unresolved, fanOut,
                            people)
  /\ pull_request \in [ merge_commit_sha : {GithubSha},
                        base_ref : {Branch100},
                        draft : BOOLEAN,
                        labels : PrLabelLists ]
  /\ originalLabels = 0
  /\ originalDraft = FALSE
  /\ branches = <<>>
  /\ idx = 0
  /\ branch = EmptyStr
  /\ prBranch = EmptyStr
  /\ cmds = <<>>
  /\ result = NoResult
  /\ api = <<>>
  /\ pulls = <<>>
  /\ failed = NoFailure
  /\ hostError = NoHostError
  /\ cat = NoCall

\* The position of the first call that throws among calls made with
\* ignoreReturnCode = false, 0 if none does.
FirstThrow(outs) ==
  IF \E i \in 1..Len(outs) : GitExecutionThrows(FALSE, outs[i])
  THEN CHOOSE i \in 1..Len(outs) :
         /\ GitExecutionThrows(FALSE, outs[i])
         /\ \A j \in 1..(i - 1) : ~GitExecutionThrows(FALSE, outs[j])
  ELSE 0

\* The calls of a straight-line sequence that are actually made.
Issued(params, outs) ==
  IF FirstThrow(outs) = 0 THEN params ELSE SubSeq(params, 1, FirstThrow(outs))

LastOut(outs) ==
  IF FirstThrow(outs) = 0 THEN outs[Len(outs)] ELSE outs[FirstThrow(outs)]

\* A failure that is recorded while the run goes on with the next call.
GitSequenceContinues(params, outs, next) ==
  /\ cmds' = cmds \o Issued(params, outs)
  /\ result' = NoResult
  /\ pc' = next
  /\ IF FirstThrow(outs) = 0
     THEN failed' = failed
     ELSE failed' = SetFailed(ExecFailureMessage(LastOut(outs)))

\* A failure after which run neither goes on nor reports anything.
GitSequenceHangs(params, outs, next) ==
  /\ cmds' = cmds \o Issued(params, outs)
  /\ result' = NoResult
  /\ IF FirstThrow(outs) = 0
     THEN pc' = next /\ failed' = failed
     ELSE pc' = "hung" /\ failed' = failed

\* A straight-line sequence of gitExecution calls inside run's try block:
\* the first one that throws ends the run in the catch.
GitSequence(params, outs, next) ==
  /\ cmds' = cmds \o Issued(params, outs)
  /\ result' = NoResult
  /\ IF FirstThrow(outs) = 0
     THEN pc' = next /\ failed' = failed
     ELSE pc' = "done" /\ failed' = SetFailed(ExecFailureMessage(LastOut(outs)))

ConfigureCommiterAndAuthor ==
  /\ pc = "configureCommiterAndAuthor"
  /\ step' = "configureCommiterAndAuthor"
  /\ \E o1 \in PlainOutputs, o2 \in PlainOutputs :
       GitSequence(<<ConfigNameParams, ConfigEmailParams>>, <<o1, o2>>,
                   "updateLocalBranches")
  /\ UNCHANGED <<labelsInput, inputs, pull_request, heap, originalLabels, originalDraft,
                 branches, idx, branch, prBranch, api, pulls>>
  /\ UNCHANGED <<cat, hostError>>

\* The refresh without its `remote update`.
UpdateLocalBranchesFetchOnly ==
  /\ pc = "updateLocalBranches"
  /\ step' = "updateLocalBranches"
  /\ \E o \in PlainOutputs :
       GitSequence(<<FetchAllParams>>, <<o>>, "getBranchesToCherryPick")
  /\ UNCHANGED <<labelsInput, inputs, pull_request, heap, originalLabels,
                 originalDraft, branches, idx, branch, prBranch, api, pulls>>
  /\ UNCHANGED <<cat, hostError>>

UpdateLocalBranches ==
  /\ pc = "updateLocalBranches"
  /\ step' = "updateLocalBranches"
  /\ \E o1 \in PlainOutputs, o2 \in PlainOutputs :
       GitSequence(<<RemoteUpdateParams, FetchAllParams>>, <<o1, o2>>,
                   "getBranchesToCherryPick")
  /\ UNCHANGED <<labelsInput, inputs, pull_request, heap, originalLabels, originalDraft,
                 branches, idx, branch, prBranch, api, pulls>>
  /\ UNCHANGED <<cat, hostError>>

TypeErrorMessage == Str("TypeError: Cannot read properties of undefined (reading 'split')")

\* A selection that takes the configured branch whatever the fan-out flag.
GetBranchesToCherryPickSingle ==
  /\ pc = "getBranchesToCherryPick"
  /\ step' = "getBranchesToCherryPick"
  /\ branches' = <<inputs.branch>>
  /\ pc' = "saveOriginals"
  /\ result' = NoResult
  /\ UNCHANGED <<labelsInput, inputs, pull_request, heap, originalLabels, originalDraft,
                 idx, branch, prBranch, cmds, api, pulls, failed, cat, hostError>>

GetBranchesToCherryPick ==
  /\ pc = "getBranchesToCherryPick"
  /\ step' = "getBranchesToCherryPick"
  /\ IF inputs.targetNextBranches
     THEN \E catalog \in Catalogs, e \in ExitCodes :
            LET out == GitOutput(e, ForEachRefStdout(catalog), EmptyStr)
                allBranches == ParseBranches(out.stdout)
                base == pull_request.base_ref
            IN  /\ cmds' = Append(cmds, GetAllBranchesParams(inputs.branch))
                /\ result' = out
                /\ IF GitExecutionThrows(FALSE, out)
                   THEN /\ pc' = "done"
                        /\ failed' = SetFailed(ExecFailureMessage(out))
                        /\ branches' = branches
                   ELSE IF NewerBranchesThrows(allBranches, base)
                   THEN /\ pc' = "done"
                        /\ failed' = SetFailed(TypeErrorMessage)
                        /\ branches' = branches
                   ELSE /\ pc' = "saveOriginals"
                        /\ failed' = failed
                        /\ branches' = NewerBranches(allBranches, base)
     ELSE /\ branches' = <<inputs.branch>>
          /\ pc' = "saveOriginals"
          /\ result' = NoResult
          /\ UNCHANGED <<cmds, failed>>
  /\ UNCHANGED <<labelsInput, inputs, pull_request, heap, originalLabels, originalDraft,
                 idx, branch, prBranch, api, pulls>>
  /\ UNCHANGED <<cat, hostError>>

\* Lines 264-270 of run: an array, even an empty one, is truthy, so the
\* early return is never taken.
SaveOriginals ==
  /\ pc = "saveOriginals"
  /\ step' = "saveOriginals"
  /\ LET copy == ArrayCopy(heap, inputs.labels)
     IN  /\ heap' = copy.heap
         /\ originalLabels' = copy.ref
  /\ originalDraft' = pull_request.draft
  /\ result' = NoResult
  /\ pc' = "forOf"
  /\ UNCHANGED <<labelsInput, inputs, pull_request, branches, idx, branch, prBranch, cmds,
                 api, pulls, failed>>
  /\ UNCHANGED <<cat, hostError>>

\* A loop head that reports a run without targets as failed.
ForOfEmptyFails ==
  /\ pc = "forOf"
  /\ step' = "forOf"
  /\ IF idx < Len(branches)
     THEN LET copy == ArrayCopy(heap, originalLabels)
          IN  /\ heap' = copy.heap
              /\ inputs' = [inputs EXCEPT !.labels = copy.ref,
                                          !.draft = originalDraft]
              /\ idx' = idx + 1
              /\ branch' = branches[idx + 1]
              /\ prBranch' = GetPrBranchName(inputs.cherryPickBranch,
                                             branches[idx + 1],
                                             pull_request.merge_commit_sha)
              /\ pc' = "createNewBranch"
              /\ failed' = failed
     ELSE /\ pc' = "done"
          /\ failed' = IF branches = <<>>
                       THEN SetFailed(Str("No branches to cherry-pick"))
                       ELSE failed
          /\ UNCHANGED <<heap, inputs, idx, branch, prBranch>>
  /\ api' = <<>>
  /\ hostError' = NoHostError
  /\ UNCHANGED <<labelsInput, pull_request, originalLabels, originalDraft, branches, cmds,
                 result, pulls, cat>>

\* A loop head that resets the labels of the iteration but not its draft
\* flag.
ForOfKeepsDraft ==
  /\ pc = "forOf"
  /\ step' = "forOf"
  /\ IF idx < Len(branches)
     THEN LET copy == ArrayCopy(heap, originalLabels)
          IN  /\ heap' = copy.heap
              /\ inputs' = [inputs EXCEPT !.labels = copy.ref]
              /\ idx' = idx + 1
              /\ branch' = branches[idx + 1]
              /\ prBranch' = GetPrBranchName(inputs.cherryPickBranch,
                                             branches[idx + 1],
                                             pull_request.merge_commit_sha)
              /\ pc' = "createNewBranch"
     ELSE /\ pc' = "done"
          /\ UNCHANGED <<heap, inputs, idx, branch, prBranch>>
  /\ api' = <<>>
  /\ hostError' = NoHostError
  /\ UNCHANGED <<labelsInput, pull_request, originalLabels, originalDraft, branches, cmds,
                 result, pulls, failed, cat>>

\* The head of the for-of loop, lines 272-278.
ForOf ==
  /\ pc = "forOf"
  /\ step' = "forOf"
  /\ IF idx < Len(branches)
     THEN LET copy == ArrayCopy(heap, originalLabels)
          IN  /\ heap' = copy.heap
              /\ inputs' = [inputs EXCEPT !.labels = copy.ref,
                                          !.draft = originalDraft]
              /\ idx' = idx + 1
              /\ branch' = branches[idx + 1]
              /\ prBranch' = GetPrBranchName(inputs.cherryPickBranch,
                                             branches[idx + 1],
                                             pull_request.merge_commit_sha)
              /\ pc' = "createNewBranch"
     ELSE /\ pc' = "done"
          /\ UNCHANGED <<heap, inputs, idx, branch, prBranch>>
  /\ api' = <<>>
  /\ hostError' = NoHostError
  /\ UNCHANGED <<labelsInput, pull_request, originalLabels, originalDraft, branches, cmds,
                 result, pulls, failed>>
  /\ UNCHANGED cat

CreateNewBranch ==
  /\ pc = "createNewBranch"
  /\ step' = "createNewBranch"
  /\ \E o \in PlainOutputs :
       GitSequence(<<CheckoutParams(prBranch, branch)>>, <<o>>, "cherryPick")
  /\ UNCHANGED <<labelsInput, inputs, pull_request, heap, originalLabels, originalDraft,
                 branches, idx, branch, prBranch, api, pulls>>
  /\ UNCHANGED <<cat, hostError>>

CherryPick ==
  /\ pc = "cherryPick"
  /\ step' = "cherryPick"
  /\ \E out \in CherryPickOutputs, o1 \in PlainOutputs, o2 \in PlainOutputs :
       LET params == GetCherryPickParams(inputs.unresolvedConflict,
                                         pull_request.merge_commit_sha)
           followUps == <<AddAllParams, CommitParams>>
       IN  /\ result' = out
           /\ IF GitExecutionThrows(TRUE, out)
              THEN /\ cmds' = Append(cmds, params)
                   /\ pc' = "done"
                   /\ failed' = SetFailed(ExecFailureMessage(out))
                   /\ UNCHANGED <<heap, inputs>>
              ELSE IF IsConflict(inputs.unresolvedConflict, out)
              THEN /\ cmds' = Append(cmds, params) \o Issued(followUps, <<o1, o2>>)
                   /\ IF FirstThrow(<<o1, o2>>) = 0
                      THEN /\ heap' = ArrayPush(heap, inputs.labels, ConflictLabel)
                           /\ inputs' = [inputs EXCEPT !.draft = TRUE]
                           /\ pc' = "pushNewBranch"
                           /\ failed' = failed
                      ELSE /\ pc' = "done"
                           /\ failed' = SetFailed(ExecFailureMessage(LastOut(<<o1, o2>>)))
                           /\ UNCHANGED <<heap, inputs>>
              ELSE IF IsUnexpected(out)
              THEN /\ cmds' = Append(cmds, params)
                   /\ pc' = "done"
                   /\ failed' = SetFailed(UnexpectedMessage(out))
                   /\ UNCHANGED <<heap, inputs>>
              ELSE /\ cmds' = Append(cmds, params)
                   /\ pc' = "pushNewBranch"
                   /\ UNCHANGED <<heap, inputs, failed>>
  /\ UNCHANGED <<labelsInput, pull_request, originalLabels, originalDraft, branches, idx,
                 branch, prBranch, api, pulls>>
  /\ UNCHANGED <<cat, hostError>>

PushNewBranch ==
  /\ pc = "pushNewBranch"
  /\ step' = "pushNewBranch"
  /\ \E o \in PlainOutputs :
       GitSequence(<<PushParams(prBranch, inputs.force)>>, <<o>>,
                   "openPullRequest")
  /\ UNCHANGED <<labelsInput, inputs, pull_request, heap, originalLabels, originalDraft,
                 branches, idx, branch, prBranch, api, pulls>>
  /\ UNCHANGED <<cat, hostError>>

\* ------------------------------------------------------- createPullRequest
\* Messages a rejected host call may carry.
HostErrorMessages ==
  { Str("HttpError: Validation Failed"),
    <<"HttpError: ", ERROR_PR_REVIEW_FROM_AUTHOR, ".">> }

\* Every label of the triggering pull request, the branch name included.
InheritedLabelsAll(prLabels, base) == prLabels

\* The labels of the triggering pull request that are inherited.
InheritedLabels(prLabels, base) == SelectSeq(prLabels, LAMBDA l : l # base)

\* appliedLabels is inputs.labels itself, so the inherited labels are pushed
\* onto the iteration's array.
HeapAfterInherit(h, ref, inherit, prLabels, base) ==
  IF inherit
  THEN [h EXCEPT ![ref] = h[ref] \o InheritedLabels(prLabels, base)]
  ELSE h

HostCall(call, head, base, draft, list) ==
  [call |-> call, head |-> head, base |-> base, draft |-> draft, list |-> list]

\* The change request opened against the configured branch instead of the
\* branch of the iteration.
HostCallsBaseFromInputs(in, head, base, appliedLabels) ==
  <<HostCall("create", head, in.branch, in.draft, <<>>)>>
  \o (IF Len(appliedLabels) > 0
      THEN <<HostCall("addLabels", head, in.branch, FALSE, appliedLabels)>>
      ELSE <<>>)
  \o (IF Len(in.assignees) > 0
      THEN <<HostCall("addAssignees", head, in.branch, FALSE, in.assignees)>>
      ELSE <<>>)
  \o (IF Len(in.reviewers) > 0
      THEN <<HostCall("requestReviewers", head, in.branch, FALSE, in.reviewers)>>
      ELSE <<>>)
  \o (IF Len(in.teamReviewers) > 0
      THEN <<HostCall("requestTeamReviewers", head, in.branch, FALSE, in.teamReviewers)>>
      ELSE <<>>)

\* The host calls createPullRequest makes when none rejects, in order.
HostCalls(in, head, base, appliedLabels) ==
  <<HostCall("create", head, base, in.draft, <<>>)>>
  \o (IF Len(appliedLabels) > 0
      THEN <<HostCall("addLabels", head, base, FALSE, appliedLabels)>>
      ELSE <<>>)
  \o (IF Len(in.assignees) > 0
      THEN <<HostCall("addAssignees", head, base, FALSE, in.assignees)>>
      ELSE <<>>)
  \o (IF Len(in.reviewers) > 0
      THEN <<HostCall("requestReviewers", head, base, FALSE, in.reviewers)>>
      ELSE <<>>)
  \o (IF Len(in.teamReviewers) > 0
      THEN <<HostCall("requestTeamReviewers", head, base, FALSE, in.teamReviewers)>>
      ELSE <<>>)

\* The try block around the two reviewer requests.
InReviewersTry(call) == call.call \in {"requestReviewers", "requestTeamReviewers"}

\* A catch that swallows whatever a reviewer request is rejected with.
IsSwallowedAnyMessage(call, message) == InReviewersTry(call)

\* The catch of that block swallows the self-review error.
IsSwallowed(call, message) ==
  InReviewersTry(call) /\ Includes(message, ERROR_PR_REVIEW_FROM_AUTHOR)

Warning(head, base) ==
  HostCall("warning", head, base, FALSE, <<Str(ERROR_PR_REVIEW_FROM_AUTHOR)>>)

\* The change request the host holds after the calls: as created, with the
\* labels of the addLabels call if that call was made and accepted.
Created(calls, rejected) ==
  [ head |-> calls[1].head, base |-> calls[1].base, draft |-> calls[1].draft,
    labels |-> IF /\ Len(calls) >= 2
                  /\ calls[2].call = "addLabels"
                  /\ rejected # 2
               THEN calls[2].list
               ELSE <<>> ]

\* openPullRequest: createPullRequest, then the outputs are set.  The host
\* call number `rejected` (0: none) rejects with `message`.
OpenPullRequest ==
  /\ pc = "openPullRequest"
  /\ step' = "openPullRequest"
  /\ result' = NoResult
  /\ LET after == HeapAfterInherit(heap, inputs.labels, inputs.inherit_labels,
                                   pull_request.labels, branch)
         calls == HostCalls(inputs, prBranch, branch, after[inputs.labels])
     IN  \E rejected \in 0..Len(calls), message \in HostErrorMessages :
           /\ heap' = IF rejected = 1 THEN heap ELSE after
           /\ pulls' = IF rejected = 1
                       THEN pulls
                       ELSE Append(pulls, Created(calls, rejected))
           /\ hostError' = IF rejected = 0
                           THEN NoHostError
                           ELSE [call |-> calls[rejected].call, message |-> message]
           /\ IF rejected = 0
              THEN /\ api' = calls
                   /\ pc' = "forOf"
                   /\ failed' = failed
              ELSE IF IsSwallowed(calls[rejected], message)
              THEN /\ api' = SubSeq(calls, 1, rejected)
                               \o <<Warning(prBranch, branch)>>
                   /\ pc' = "forOf"
                   /\ failed' = failed
              ELSE /\ api' = SubSeq(calls, 1, rejected)
                   /\ pc' = "done"
                   /\ failed' = SetFailed(message)
  /\ UNCHANGED <<labelsInput, inputs, pull_request, originalLabels, originalDraft, branches,
                 idx, branch, prBranch, cmds>>
  /\ UNCHANGED cat

Next ==
  \/ ConfigureCommiterAndAuthor
  \/ UpdateLocalBranches
  \/ GetBranchesToCherryPick
  \/ SaveOriginals
  \/ ForOf
  \/ CreateNewBranch
  \/ CherryPick
  \/ PushNewBranch
  \/ OpenPullRequest

Spec == Init /\ [][Next]_vars

\* Every process invocation and host call returns, so run always takes its
\* next step.
SpecLive == Init /\ [][Next]_vars /\ WF_vars(Next)

\* ---------------------------------------------------------------- histories
\* The git subcommand of a logged call.
Kind(params) == params[1][1]

CountKind(k) == Cardinality({ i \in 1..Len(cmds) : Kind(cmds[i]) = k })

\* The logged calls of one kind, in call order.
CmdsOfKind(k) == SelectSeq(cmds, LAMBDA c : Kind(c) = k)

PerBranchKinds == {"checkout", "cherry-pick", "add", "commit", "push"}

\* Which git call may directly follow which, from the branch listing on.
MayFollow(k1, k2) ==
  \/ k1 = "for-each-ref" /\ k2 = "checkout"
  \/ k1 = "checkout" /\ k2 = "cherry-pick"
  \/ k1 = "cherry-pick" /\ k2 \in {"add", "push"}
  \/ k1 = "add" /\ k2 = "commit"
  \/ k1 = "commit" /\ k2 = "push"
  \/ k1 = "push" /\ k2 = "checkout"

Succeeded == pc = "done" /\ ~failed.set

\* ------------------------------------------------------------------- claims

\* C1: every run configures the identity once (user.name, then user.email),
\* then refreshes the remotes (remote update, then fetch --all), then selects
\* the branches, then runs create-local-branch, cherry-pick, push, publish for
\* each branch; no listing, no per-branch call and no host call precedes the
\* end of the refresh.
C1_OperationOrder ==
  /\ Len(cmds) >= 1 => cmds[1] = ConfigNameParams
  /\ Len(cmds) >= 2 => cmds[2] = ConfigEmailParams
  /\ Len(cmds) >= 3 => cmds[3] = RemoteUpdateParams
  /\ Len(cmds) >= 4 => cmds[4] = FetchAllParams
  /\ \A i \in 5..Len(cmds) : Kind(cmds[i]) \notin {"config", "remote", "fetch"}
  /\ \A i \in 1..Len(cmds) : Kind(cmds[i]) = "for-each-ref" => i = 5
  /\ \A i \in 1..Len(cmds) : Kind(cmds[i]) \in PerBranchKinds => i > 4
  /\ Len(cmds) >= 5 => Kind(cmds[5]) \in {"for-each-ref", "checkout"}
  /\ \A i \in 5..(Len(cmds) - 1) : MayFollow(Kind(cmds[i]), Kind(cmds[i + 1]))
  /\ (api # <<>> \/ pulls # <<>> \/ branches # <<>> \/ idx > 0) => Len(cmds) >= 4
  /\ Len(pulls) <= CountKind("push")
  /\ CountKind("push") <= Len(pulls) + 1
  /\ CountKind("checkout") <= Len(pulls) + 1
  /\ pc \in {"createNewBranch", "cherryPick", "pushNewBranch", "openPullRequest"}
       => /\ CountKind("checkout") = IF pc = "createNewBranch" THEN idx - 1 ELSE idx
          /\ CountKind("cherry-pick") = IF pc \in {"createNewBranch", "cherryPick"}
                                        THEN idx - 1 ELSE idx
          /\ CountKind("push") = IF pc = "openPullRequest" THEN idx ELSE idx - 1
          /\ Len(pulls) = idx - 1

\* A fan-out run that handled two branches and ended without failure.
C1_Witness ==
  /\ Succeeded
  /\ inputs.targetNextBranches
  /\ Len(branches) = 2
  /\ Len(pulls) = 2
  /\ CountKind("for-each-ref") = 1

\* C2: at the start of every iteration the iteration's labels are the labels
\* the run was configured with and its draft flag is the original draft value,
\* whatever the earlier iterations did; the saved original list never changes.
C2_IterationStartsFromOriginals ==
  /\ originalLabels # 0
       => /\ heap[originalLabels] = labelsInput
          /\ originalDraft = pull_request.draft
  /\ pc = "createNewBranch"
       => /\ heap[inputs.labels] = labelsInput
          /\ inputs.draft = originalDraft

\* A second iteration starts after a first one that met a conflict (label
\* 'conflict', draft forced) and inherited a label during publish.
C2_Witness ==
  /\ pc = "createNewBranch"
  /\ idx = 2
  /\ ~pull_request.draft
  /\ pulls[1].draft
  /\ \E j \in 1..Len(pulls[1].labels) : pulls[1].labels[j] = ConflictLabel
  /\ \E j \in 1..Len(pulls[1].labels) : pulls[1].labels[j] = Str("bug")
  /\ inputs.inherit_labels

\* C3: once a step of a branch's pipeline has raised, no create-branch,
\* cherry-pick, push or publish follows: the failing call is the last one of
\* the run, for the rest of that branch and for every later branch.
C3_FailureStopsRun ==
  failed.set
    => /\ pc = "done"
       /\ ~ENABLED Next
       /\ step \in {"createNewBranch", "cherryPick", "pushNewBranch", "openPullRequest"}
            => /\ CountKind("checkout") = idx
               /\ CountKind("cherry-pick") = IF step = "createNewBranch"
                                             THEN idx - 1 ELSE idx
               /\ CountKind("push") = IF step \in {"pushNewBranch", "openPullRequest"}
                                      THEN idx ELSE idx - 1
               /\ step # "openPullRequest" => (Len(pulls) = idx - 1 /\ api = <<>>)
               /\ step = "openPullRequest"
                    => /\ Len(pulls) \in {idx - 1, idx}
                       /\ api # <<>>
                       /\ api[Len(api)].call # "warning"
                       /\ api[Len(api)].base = branches[idx]
               /\ step = "createNewBranch" => Kind(cmds[Len(cmds)]) = "checkout"
               /\ step = "cherryPick"
                    => Kind(cmds[Len(cmds)]) \in {"cherry-pick", "add", "commit"}
               /\ step = "pushNewBranch" => Kind(cmds[Len(cmds)]) = "push"

\* The first of two selected branches failed at its cherry-pick.
C3_Witness ==
  /\ failed.set
  /\ step = "cherryPick"
  /\ idx = 1
  /\ Len(branches) = 2

\* C4: branches are handled one after the other in the order of the
\* selection: a branch's local branch is created only after the change request
\* of the branch before it was published, and a successful run has published
\* exactly one change request per selected branch, with that branch as base.
C4_NoInterleaving ==
  /\ CountKind("checkout") <= Len(pulls) + 1
  /\ CountKind("checkout") <= Len(branches)
  /\ \A i \in 1..CountKind("checkout") :
       CmdsOfKind("checkout")[i][4] = <<"origin/">> \o branches[i]
  /\ \A i \in 1..Len(pulls) : pulls[i].base = branches[i]
  /\ Succeeded => Len(pulls) = Len(branches)

\* A successful fan-out run over two different branches.
C4_Witness ==
  /\ Succeeded
  /\ Len(branches) = 2
  /\ branches[1] # branches[2]
  /\ Len(pulls) = 2

\* ------------------------------------------------------ cherryPick's effects
\* The state right after a call of cherryPick, whether it returned or threw.
AfterCherryPick == step = "cherryPick"

LastCherryPickIndex ==
  CHOOSE i \in 1..Len(cmds) :
    /\ Kind(cmds[i]) = "cherry-pick"
    /\ \A j \in (i + 1)..Len(cmds) : Kind(cmds[j]) # "cherry-pick"

\* The git calls cherryPick made after the cherry-pick itself.
FollowUps == SubSeq(cmds, LastCherryPickIndex + 1, Len(cmds))

HasConflictMarker == Includes(result.stderr, CHERRYPICK_UNRESOLVED_CONFLICT)

HasEmptyMarker == Includes(result.stderr, CHERRYPICK_EMPTY)

\* The labels and the draft flag of the iteration are as the loop head set them.
IterationStateUntouched ==
  /\ heap[inputs.labels] = labelsInput
  /\ inputs.draft = pull_request.draft

IterationStateMarkedConflict ==
  /\ heap[inputs.labels] = Append(labelsInput, <<"conflict">>)
  /\ inputs.draft = TRUE

\* What the call did, read off the logs.
ObservedOutcome ==
  IF FollowUps # <<>> THEN "Conflict"
  ELSE IF failed.set THEN "Fatal"
  ELSE "Continue"

StageAll == << <<"add">>, <<".">> >>

CommitUnresolved == << <<"commit">>, <<"-m">>, <<"leave conflicts unresolved">> >>

\* C5 as stated: under leave-unresolved an error text with the conflict marker
\* always gives the two follow-up calls `add .` and `commit -m 'leave conflicts
\* unresolved'`, the label 'conflict', draft = true, and no error.
C5_AlwaysTwoFollowUps ==
  (AfterCherryPick /\ inputs.unresolvedConflict /\ HasConflictMarker)
    => /\ FollowUps = <<StageAll, CommitUnresolved>>
       /\ IterationStateMarkedConflict
       /\ ~failed.set

\* C5 amended: under leave-unresolved an error text with the conflict marker
\* makes cherryPick issue `add .` and, if that succeeds, `commit -m 'leave
\* conflicts unresolved'`, and nothing else; when both succeed the iteration
\* has gained the label 'conflict' and draft = true and no error is raised;
\* when one of them fails its error ends the run and labels and draft are
\* untouched.
C5_ConflictFollowUps ==
  (AfterCherryPick /\ inputs.unresolvedConflict /\ HasConflictMarker)
    => /\ FollowUps \in {<<StageAll>>, <<StageAll, CommitUnresolved>>}
       /\ ~failed.set
            => /\ FollowUps = <<StageAll, CommitUnresolved>>
               /\ IterationStateMarkedConflict
               /\ pc = "pushNewBranch"
       /\ failed.set
            => /\ IterationStateUntouched
               /\ failed.message[1] = "The process 'git' failed with exit code "
               /\ pc = "done"

\* A conflict left unresolved: both follow-up calls were made and succeeded.
C5_Witness ==
  /\ AfterCherryPick
  /\ inputs.unresolvedConflict
  /\ HasConflictMarker
  /\ ~failed.set
  /\ FollowUps = <<StageAll, CommitUnresolved>>

\* C6: under auto-theirs cherryPick issues the cherry-pick and no other call,
\* and leaves labels and draft alone, for every exit code and error text, the
\* conflict marker included; with exit code 0 it raises nothing.
C6_TheirsIssuesOneCommand ==
  (AfterCherryPick /\ ~inputs.unresolvedConflict)
    => /\ FollowUps = <<>>
       /\ Kind(cmds[Len(cmds) - 1]) = "checkout"
       /\ CountKind("cherry-pick") = idx
       /\ IterationStateUntouched
       /\ result.exitCode = 0 => (~failed.set /\ pc = "pushNewBranch")

\* Auto-theirs met an error text with the conflict marker, with exit code 0.
C6_Witness ==
  /\ AfterCherryPick
  /\ ~inputs.unresolvedConflict
  /\ HasConflictMarker
  /\ result.exitCode = 0
  /\ ~failed.set

\* C7: under auto-theirs a nonzero exit code with the empty-commit marker in
\* the error text raises nothing: no further git call is made by cherryPick
\* and the run goes on to the push of the iteration.
C7_TheirsEmptyIsBenign ==
  (AfterCherryPick /\ ~inputs.unresolvedConflict /\ result.exitCode # 0
     /\ \E i \in 1..Len(result.stderr) : result.stderr[i] = CHERRYPICK_EMPTY)
    => /\ ~failed.set
       /\ FollowUps = <<>>
       /\ pc = "pushNewBranch"

\* An empty cherry-pick with a nonzero exit code; the marker is not the whole
\* error text.
C7_Witness ==
  /\ AfterCherryPick
  /\ ~inputs.unresolvedConflict
  /\ result.exitCode # 0
  /\ HasEmptyMarker
  /\ Len(result.stderr) > 1
  /\ pc = "pushNewBranch"

\* C8: under auto-theirs a nonzero exit code without the empty-commit marker
\* raises an error whose message is 'Unexpected error: ' followed by the
\* stderr text, and the run is reported as failed.
C8_TheirsUnexpectedError ==
  (AfterCherryPick /\ ~inputs.unresolvedConflict /\ result.exitCode # 0
     /\ ~HasEmptyMarker)
    => /\ failed.set
       /\ failed.message = <<"Unexpected error: ">> \o result.stderr
       /\ pc = "done"

\* Auto-theirs failed on a non-empty error text that is no marker.
C8_Witness ==
  /\ AfterCherryPick
  /\ ~inputs.unresolvedConflict
  /\ result.exitCode # 0
  /\ result.stderr = <<"fatal: bad object">>
  /\ failed.set

\* C9 as stated: under leave-unresolved the exit code never matters: the
\* outcome of a cherry-pick is the outcome the same error text has with any
\* other exit code.
C9_ExitCodeIgnored ==
  (AfterCherryPick /\ inputs.unresolvedConflict)
    => \A e \in ExitCodes :
         ObservedOutcome = OutcomeOf(TRUE, [result EXCEPT !.exitCode = e])

\* C9 amended: under leave-unresolved the exit code is ignored when the error
\* text contains the conflict marker (always the conflict follow-up) or, that
\* failing, the empty-commit marker (always continue); with neither marker
\* exit code 0 continues and a nonzero exit code raises.
C9_ExitCodeIgnoredWithMarker ==
  (AfterCherryPick /\ inputs.unresolvedConflict)
    => /\ HasConflictMarker => ObservedOutcome = "Conflict"
       /\ (~HasConflictMarker /\ HasEmptyMarker) => ObservedOutcome = "Continue"
       /\ (~HasConflictMarker /\ ~HasEmptyMarker)
            => ObservedOutcome = IF result.exitCode = 0 THEN "Continue" ELSE "Fatal"

\* Leave-unresolved met the empty-commit marker with a nonzero exit code and
\* went on.
C9_Witness ==
  /\ AfterCherryPick
  /\ inputs.unresolvedConflict
  /\ ~HasConflictMarker
  /\ HasEmptyMarker
  /\ result.exitCode # 0
  /\ ~failed.set

\* C10 as stated: under leave-unresolved an error text with neither marker is
\* fatal and the raised message is the raw error text.
C10_OtherTextIsFatalRaw ==
  (AfterCherryPick /\ inputs.unresolvedConflict /\ ~HasConflictMarker
     /\ ~HasEmptyMarker)
    => /\ failed.set
       /\ failed.message = result.stderr

\* C10 amended: under leave-unresolved an error text with neither marker is
\* fatal when the exit code is nonzero, and the raised message is
\* 'Unexpected error: ' followed by the error text; with exit code 0 nothing
\* is raised.
C10_OtherTextIsFatalOnNonzeroExit ==
  (AfterCherryPick /\ inputs.unresolvedConflict /\ ~HasConflictMarker
     /\ ~HasEmptyMarker)
    => IF result.exitCode # 0
       THEN /\ failed.set
            /\ failed.message = <<"Unexpected error: ">> \o result.stderr
            /\ pc = "done"
       ELSE /\ ~failed.set
            /\ pc = "pushNewBranch"

\* Leave-unresolved failed on an error text with neither marker.
C10_Witness ==
  /\ AfterCherryPick
  /\ inputs.unresolvedConflict
  /\ result.stderr = <<"fatal: bad object">>
  /\ result.exitCode # 0
  /\ failed.set

\* The four outcomes of a cherryPick invocation, read off what git returned.
OutcomeConflict == inputs.unresolvedConflict /\ HasConflictMarker

OutcomeFatal == ~OutcomeConflict /\ result.exitCode # 0 /\ ~HasEmptyMarker

OutcomeEmpty == ~OutcomeConflict /\ ~OutcomeFatal /\ HasEmptyMarker

OutcomeClean == ~OutcomeConflict /\ ~OutcomeFatal /\ ~HasEmptyMarker

UnexpectedErrorRaised ==
  failed.set /\ failed.message = <<"Unexpected error: ">> \o result.stderr

\* C11 as stated: a cherryPick invocation ends in exactly one of Clean, Empty,
\* Conflict and Fatal; an error is raised exactly when the outcome is Fatal;
\* the conflict follow-up (stage, commit, label 'conflict', draft = true)
\* happens exactly when the outcome is Conflict, and never together with a
\* raised 'Unexpected error'.
C11_ErrorOnlyWhenFatal ==
  AfterCherryPick
    => /\ failed.set <=> OutcomeFatal
       /\ OutcomeConflict
            <=> (FollowUps = <<StageAll, CommitUnresolved>> /\ IterationStateMarkedConflict)
       /\ ~OutcomeConflict => (FollowUps = <<>> /\ IterationStateUntouched)
       /\ ~(FollowUps # <<>> /\ UnexpectedErrorRaised)

\* C11 amended: a cherryPick invocation ends in exactly one of Clean, Empty,
\* Conflict and Fatal; an 'Unexpected error' is raised exactly when the
\* outcome is Fatal; the conflict follow-up is started exactly when the
\* outcome is Conflict, and it either completes (stage, commit, label
\* 'conflict', draft = true, no error) or stops at the follow-up command that
\* failed, whose own error is raised with labels and draft untouched; no other
\* error is raised, and a follow-up never comes with an 'Unexpected error'.
C11_OneOutcome ==
  AfterCherryPick
    => /\ Cardinality({o \in {"Clean", "Empty", "Conflict", "Fatal"} :
                          \/ o = "Clean" /\ OutcomeClean
                          \/ o = "Empty" /\ OutcomeEmpty
                          \/ o = "Conflict" /\ OutcomeConflict
                          \/ o = "Fatal" /\ OutcomeFatal}) = 1
       /\ UnexpectedErrorRaised <=> OutcomeFatal
       /\ OutcomeConflict <=> FollowUps # <<>>
       /\ (OutcomeConflict /\ ~failed.set)
            => (FollowUps = <<StageAll, CommitUnresolved>> /\ IterationStateMarkedConflict)
       /\ (OutcomeConflict /\ failed.set)
            => /\ FollowUps \in {<<StageAll>>, <<StageAll, CommitUnresolved>>}
               /\ IterationStateUntouched
               /\ failed.message[1] = "The process 'git' failed with exit code "
       /\ ~OutcomeConflict => IterationStateUntouched
       /\ (OutcomeClean \/ OutcomeEmpty) => ~failed.set
       /\ ~(FollowUps # <<>> /\ UnexpectedErrorRaised)

\* A conflict whose follow-up completed: staged, committed, labelled, draft.
C11_Witness ==
  /\ AfterCherryPick
  /\ OutcomeConflict
  /\ FollowUps = <<StageAll, CommitUnresolved>>
  /\ IterationStateMarkedConflict
  /\ ~failed.set
  /\ idx = 2

MinorValues == {0, 2, 10}

Versions ==
  { <<major, minor, patch>> :
      major \in 0..MaxVersion, minor \in MinorValues, patch \in 0..MaxVersion }

DigitChar(n) ==
  CASE n = 0 -> "0" [] n = 1 -> "1" [] n = 2 -> "2" [] n = 3 -> "3"
    [] n = 4 -> "4" [] n = 5 -> "5" [] n = 6 -> "6" [] n = 7 -> "7"
    [] n = 8 -> "8" [] n = 9 -> "9"

RECURSIVE Digits(_)
Digits(n) ==
  IF n < 10 THEN <<DigitChar(n)>>
  ELSE Digits(n \div 10) \o <<DigitChar(n % 10)>>

\* The branch name `r/X.Y.Z` of a version.
VersionName(v) ==
  <<"r", "/">> \o Digits(v[1]) \o <<".">> \o Digits(v[2]) \o <<".">> \o Digits(v[3])

\* Names whose suffix is not three integers, and a name without a suffix.
BranchTwoParts == <<"r", "/", "1", ".", "1">>

BranchFourParts == <<"r", "/", "2", ".", "0", ".", "0", ".", "1">>

BranchNonNumeric == <<"r", "/", "2", ".", "x", ".", "0">>

BranchNoSlash == <<"m", "a", "i", "n">>

ListedNames ==
  {Branch100, Branch110, Branch200, BranchTwoParts, BranchFourParts, BranchNonNumeric,
   BranchNoSlash}

\* What the listing may print: any names in any order, repeats included.
Listings == SeqsUpTo(ListedNames, MaxBranches)

References == {Branch100, Branch110, Branch200, BranchTwoParts, BranchNoSlash}

\* Three names to compare with each other.
CompareInputs ==
  { [NoCall EXCEPT !.versions = vs,
                   !.names = [i \in 1..3 |-> VersionName(vs[i])]] :
      vs \in [1..3 -> Versions] }

\* A listing and the branch to compare its names with.
ListingInputs ==
  { [NoCall EXCEPT !.remote = l, !.stdout = ForEachRefStdout(l),
                   !.currentBranch = ref] :
      l \in Listings, ref \in References }

\* The catalog functions are called on their own, as their unit tests call
\* them; no run is in progress.
CatalogInit ==
  /\ cat \in CompareInputs \cup ListingInputs
  /\ pc = "done"
  /\ step = "none"
  /\ labelsInput = <<>>
  /\ heap = <<labelsInput>>
  /\ inputs = ParseInputs(1, FALSE, FALSE, EmptyStr, FALSE, TRUE,
                          [assignees |-> <<>>, reviewers |-> <<>>,
                           teamReviewers |-> <<>>])
  /\ pull_request = [merge_commit_sha |-> GithubSha, base_ref |-> Branch100,
                     draft |-> FALSE, labels |-> <<>>]
  /\ originalLabels = 0
  /\ originalDraft = FALSE
  /\ branches = <<>>
  /\ idx = 0
  /\ branch = EmptyStr
  /\ prBranch = EmptyStr
  /\ cmds = <<>>
  /\ result = NoResult
  /\ api = <<>>
  /\ pulls = <<>>
  /\ failed = NoFailure
  /\ hostError = NoHostError

\* isBranchNewer(names[i], names[j]) for every two of the three names;
\* newer[i][j] is the answer to "is names[j] newer than names[i]".
IsBranchNewerCalls ==
  /\ cat.fn = "none"
  /\ cat.names # <<>>
  /\ cat' = [cat EXCEPT
               !.fn = "isBranchNewer",
               !.threw = \E i \in 1..3, j \in 1..3 :
                            IsBranchNewerThrows(cat.names[i], cat.names[j]),
               !.newer = [i \in 1..3 |-> [j \in 1..3 |->
                            IsBranchNewer(cat.names[i], cat.names[j])]]]
  /\ UNCHANGED <<pc, step, labelsInput, inputs, pull_request, heap, originalLabels,
                 originalDraft, branches, idx, branch, prBranch, cmds, result, api,
                 pulls, failed, hostError>>

\* A listing that is used up by the call that reads it.
GetAllBranchesConsuming ==
  /\ cat.names = <<>>
  /\ cat.fn = "none" \/ (cat.fn = "getAllBranches" /\ cat.calls < MaxCalls)
  /\ \E e \in ExitCodes :
       LET out == GitOutput(e, cat.stdout, EmptyStr)
       IN  /\ cmds' = Append(cmds, GetAllBranchesParams(inputs.branch))
           /\ result' = out
           /\ cat' = [cat EXCEPT !.fn = "getAllBranches",
                                 !.calls = cat.calls + 1,
                                 !.stdout = EmptyStr,
                                 !.threw = GitExecutionThrows(FALSE, out),
                                 !.branches = IF GitExecutionThrows(FALSE, out)
                                              THEN <<>>
                                              ELSE ParseBranches(out.stdout)]
  /\ UNCHANGED <<pc, step, labelsInput, inputs, pull_request, heap, originalLabels,
                 originalDraft, branches, idx, branch, prBranch, api, pulls, failed,
                 hostError>>

\* getAllBranches(inputs.branch), for the first time or again on the same
\* remote: the listing is parsed unless git failed.
GetAllBranches ==
  /\ cat.names = <<>>
  /\ cat.fn = "none" \/ (cat.fn = "getAllBranches" /\ cat.calls < MaxCalls)
  /\ \E e \in ExitCodes :
       LET out == GitOutput(e, cat.stdout, EmptyStr)
       IN  /\ cmds' = Append(cmds, GetAllBranchesParams(inputs.branch))
           /\ result' = out
           /\ cat' = [cat EXCEPT !.fn = "getAllBranches",
                                 !.calls = cat.calls + 1,
                                 !.threw = GitExecutionThrows(FALSE, out),
                                 !.branches = IF GitExecutionThrows(FALSE, out)
                                              THEN <<>>
                                              ELSE ParseBranches(out.stdout)]
  /\ UNCHANGED <<pc, step, labelsInput, inputs, pull_request, heap, originalLabels,
                 originalDraft, branches, idx, branch, prBranch, api, pulls, failed,
                 hostError>>

\* getNewerBranchesForCherryPick(inputs.branch, currentBranch), for the first
\* time or again on the same remote: it rejects when the listing fails or a
\* comparison throws.
GetNewerBranchesForCherryPick ==
  /\ cat.names = <<>>
  /\ \/ cat.fn = "none"
     \/ cat.fn = "getNewerBranchesForCherryPick" /\ cat.calls < MaxCalls
  /\ \E e \in ExitCodes :
       LET out == GitOutput(e, cat.stdout, EmptyStr)
           allBranches == ParseBranches(out.stdout)
           throws == \/ GitExecutionThrows(FALSE, out)
                     \/ NewerBranchesThrows(allBranches, cat.currentBranch)
       IN  /\ cmds' = Append(cmds, GetAllBranchesParams(inputs.branch))
           /\ result' = out
           /\ cat' = [cat EXCEPT !.fn = "getNewerBranchesForCherryPick",
                                 !.calls = cat.calls + 1,
                                 !.threw = throws,
                                 !.branches = IF throws
                                              THEN <<>>
                                              ELSE NewerBranches(allBranches,
                                                                 cat.currentBranch)]
  /\ UNCHANGED <<pc, step, labelsInput, inputs, pull_request, heap, originalLabels,
                 originalDraft, branches, idx, branch, prBranch, api, pulls, failed,
                 hostError>>

CatalogNext ==
  \/ IsBranchNewerCalls
  \/ GetAllBranches
  \/ GetNewerBranchesForCherryPick

SpecCatalog == CatalogInit /\ [][CatalogNext]_vars

\* The three names were compared with each other.
Compared == cat.fn = "isBranchNewer" /\ ~cat.threw

\* C13: on names prefix/X.Y.Z isBranchNewer never answers true in both
\* directions, and answers false in both directions, and on the name itself,
\* when the two version tuples are equal.
C13_Antisymmetric ==
  Compared
    => \A i \in 1..3, j \in 1..3 :
         /\ ~(cat.newer[i][j] /\ cat.newer[j][i])
         /\ cat.versions[i] = cat.versions[j]
              => (~cat.newer[i][j] /\ ~cat.newer[j][i])

\* Two names of the same version and a third one that is newer than both.
C13_Witness ==
  /\ Compared
  /\ cat.versions[1] = cat.versions[2]
  /\ cat.newer[1][3]
  /\ ~cat.newer[3][1]
  /\ ~cat.newer[1][2]

\* v is greater than w, comparing major, then minor, then patch.
LexGreater(v, w) ==
  \E k \in 1..3 : v[k] > w[k] /\ \A l \in 1..(k - 1) : v[l] = w[l]

\* C14: isBranchNewer(reference, candidate) is true exactly when the
\* candidate's (major, minor, patch) is lexicographically greater than the
\* reference's; equal tuples give false.
C14_Lexicographic ==
  Compared
    => \A i \in 1..3, j \in 1..3 :
         cat.newer[i][j] <=> LexGreater(cat.versions[j], cat.versions[i])

\* The patch decides one comparison, a two-digit minor against a single-digit
\* one decides another.
C14_Witness ==
  /\ Compared
  /\ cat.versions[1] = <<1, 10, 0>>
  /\ cat.versions[2] = <<1, 10, 1>>
  /\ cat.versions[3] = <<1, 2, 1>>
  /\ cat.newer[1][2]
  /\ cat.newer[3][1]
  /\ ~cat.newer[2][3]

\* getNewerBranchesForCherryPick returned a list.
Selected == cat.fn = "getNewerBranchesForCherryPick" /\ ~cat.threw

\* The names the listing printed, in the order printed.
Listed == ParseBranches(cat.stdout)

\* The positions of the listed names that are newer than the reference.
NewerPositions ==
  {i \in 1..Len(Listed) : IsBranchNewer(cat.currentBranch, Listed[i])}

\* C15: the list getNewerBranchesForCherryPick returns is the listing with
\* the names that are not newer than the reference struck out: the k-th name
\* returned is the k-th listed name that is newer, so order and repeats are
\* those of the listing, and the reference itself is never returned.
C15_SelectIsFilter ==
  Selected
    => /\ Len(cat.branches) = Cardinality(NewerPositions)
       /\ \A k \in 1..Len(cat.branches) :
            \E i \in NewerPositions :
               /\ Cardinality({j \in NewerPositions : j <= i}) = k
               /\ cat.branches[k] = Listed[i]
       /\ \A k \in 1..Len(cat.branches) : cat.branches[k] # cat.currentBranch

\* Two different newer names were listed newest first and returned in that
\* order.
C15_Witness ==
  /\ Selected
  /\ cat.currentBranch = Branch100
  /\ Listed = <<Branch200, Branch110>>
  /\ cat.branches = <<Branch200, Branch110>>

\* `prefix/X.Y.Z`: the part after the first '/' is three runs of digits.
WellFormed(name) ==
  /\ Len(Split(name, "/")) >= 2
  /\ LET parts == Split(Split(name, "/")[2], ".")
     IN  /\ Len(parts) = 3
         /\ \A i \in 1..3 :
              /\ parts[i] # <<>>
              /\ \A k \in 1..Len(parts[i]) :
                   parts[i][k] \in {"0", "1", "2", "3", "4", "5", "6", "7", "8", "9"}

\* C16: a listed name whose suffix is not exactly three integers is never
\* in the list getNewerBranchesForCherryPick returns.
C16_MalformedNeverSelected ==
  Selected => \A k \in 1..Len(cat.branches) : WellFormed(cat.branches[k])

\* C17: on names prefix/X.Y.Z newer-than is transitive: when the second name
\* is newer than the first and the third newer than the second, the third
\* is newer than the first.
C17_Transitive ==
  Compared
    => \A i \in 1..3, j \in 1..3, k \in 1..3 :
         (cat.newer[i][j] /\ cat.newer[j][k]) => cat.newer[i][k]

\* A chain of three versions, each step decided by a different component.
C17_Witness ==
  /\ Compared
  /\ cat.versions[1] = <<0, 10, 1>>
  /\ cat.versions[2] = <<1, 0, 0>>
  /\ cat.versions[3] = <<1, 2, 0>>
  /\ cat.newer[1][2]
  /\ cat.newer[2][3]
  /\ cat.newer[1][3]

\* getBranchesToCherryPick returned and run has not gone on yet.
SelectionReturned == pc = "saveOriginals" /\ step = "getBranchesToCherryPick"

\* C18: with the fan-out flag set the targets are what
\* getNewerBranchesForCherryPick gives for the configured pattern and the base
\* branch of the pull request, from one listing of that pattern; without it
\* they are the one-element list of the configured branch and no listing is
\* ever made.
C18_TargetSelection ==
  /\ ~inputs.targetNextBranches => CountKind("for-each-ref") = 0
  /\ inputs.targetNextBranches => CountKind("for-each-ref") <= 1
  /\ SelectionReturned
       => IF inputs.targetNextBranches
          THEN /\ CountKind("for-each-ref") = 1
               /\ cmds[Len(cmds)] = << <<"for-each-ref">>, <<"--format='%(refname:short)'">>,
                                       <<"refs/remotes/origin/">> \o inputs.branch >>
               /\ branches = NewerBranches(ParseBranches(result.stdout),
                                           pull_request.base_ref)
          ELSE branches = <<inputs.branch>>

\* A fan-out run whose listing held an older and a newer branch: only the
\* newer one is a target.
C18_Witness ==
  /\ SelectionReturned
  /\ inputs.targetNextBranches
  /\ ParseBranches(result.stdout) = <<Branch200, Branch100>>
  /\ branches = <<Branch200>>

\* getBranchesToCherryPick returned the empty list.
EmptySelection ==
  /\ branches = <<>>
  /\ \/ pc \in {"saveOriginals", "forOf"}
     \/ pc = "done" /\ step = "forOf"

\* C19: when the selection returns no branch the run reports no failure,
\* makes no checkout, cherry-pick, follow-up, push or host call, and the loop
\* head ends it.
C19_EmptySelectionEndsQuietly ==
  EmptySelection
    => /\ ~failed.set
       /\ \A k \in PerBranchKinds : CountKind(k) = 0
       /\ pulls = <<>>
       /\ api = <<>>
       /\ idx = 0
       /\ step = "forOf" => pc = "done"

\* A fan-out run that found no newer branch has ended.
C19_Witness ==
  /\ EmptySelection
  /\ inputs.targetNextBranches
  /\ CountKind("for-each-ref") = 1
  /\ pc = "done"
  /\ ~failed.set

\* The PR branch name of a target branch: the override, or the synthesized
\* name.
PrBranchNameOf(target) ==
  IF inputs.cherryPickBranch # <<>>
  THEN inputs.cherryPickBranch
  ELSE <<"cherry-pick-">> \o target \o <<"-">> \o pull_request.merge_commit_sha

\* C20: for the i-th target branch the name of the local branch created, of
\* the branch pushed and of the head of the pull request created are all the
\* configured override when it is non-empty, and otherwise
\* `cherry-pick-<branch>-<merge commit sha>` of that target branch.
C20_OnePrBranchName ==
  /\ \A i \in 1..CountKind("checkout") :
       /\ CmdsOfKind("checkout")[i][3] = PrBranchNameOf(branches[i])
       /\ CmdsOfKind("checkout")[i][4] = <<"origin/">> \o branches[i]
  /\ \A i \in 1..CountKind("push") :
       CmdsOfKind("push")[i][4] = PrBranchNameOf(branches[i])
  /\ \A i \in 1..Len(pulls) : pulls[i].head = PrBranchNameOf(branches[i])
  /\ pc \in {"createNewBranch", "cherryPick", "pushNewBranch", "openPullRequest"}
       => prBranch = PrBranchNameOf(branches[idx])

\* Two pull requests were created from synthesized names, one per target.
C20_Witness ==
  /\ inputs.cherryPickBranch = <<>>
  /\ Len(pulls) = 2
  /\ pulls[1].head = <<"cherry-pick-">> \o Branch110 \o <<"-">> \o GithubSha
  /\ pulls[2].head = <<"cherry-pick-">> \o Branch200 \o <<"-">> \o GithubSha
  /\ CountKind("push") = 2

\* C21: every push of a run is `push -u origin <PR branch of its iteration>`,
\* with `--force` appended exactly when the force flag is set; an iteration
\* pushes once when its cherry-pick let the run go on, and never twice.
C21_OnePushPerIteration ==
  /\ \A i \in 1..CountKind("push") :
       CmdsOfKind("push")[i]
         = IF inputs.force
           THEN << <<"push">>, <<"-u">>, <<"origin">>, PrBranchNameOf(branches[i]),
                   <<"--force">> >>
           ELSE << <<"push">>, <<"-u">>, <<"origin">>, PrBranchNameOf(branches[i]) >>
  /\ CountKind("push") \in {idx - 1, idx}
  /\ CountKind("push") >= Len(pulls)
  /\ pc \in {"createNewBranch", "cherryPick", "pushNewBranch"}
       => CountKind("push") = idx - 1
  /\ (step \in {"pushNewBranch", "openPullRequest"} \/ pc = "openPullRequest")
       => CountKind("push") = idx

\* Two iterations each pushed once, without force.
C21_Witness ==
  /\ ~inputs.force
  /\ idx = 2
  /\ CountKind("push") = 2
  /\ pc = "openPullRequest"

\* run ended in its catch: it stopped at a step other than the loop head,
\* which is where it returns from when nothing raises.
RunCutShort == pc = "done" /\ step # "forOf"

\* The texts of the errors the steps of a run raise.
RaisedMessages ==
  { <<"The process 'git' failed with exit code ", "1">>,
    <<"TypeError: Cannot read properties of undefined (reading 'split')">>,
    <<"HttpError: Validation Failed">>,
    <<"HttpError: ", "Review cannot be requested from pull request author", ".">> }
  \cup { <<"Unexpected error: ">> \o t : t \in StderrTexts }

\* C22: a step that raises ends the run in the catch of run, which reports
\* the failure with the error raised and returns: no further step runs; and
\* failure is reported only when a step raised.
C22_RaiseFailsRun ==
  /\ RunCutShort <=> failed.set
  /\ failed.set => (pc = "done" /\ failed.message \in RaisedMessages)
  /\ ~failed.set => failed.message = <<>>
  /\ pc = "done" => ~ENABLED Next

\* The push of the second iteration raised and the run was reported failed.
C22_Witness ==
  /\ failed.set
  /\ step = "pushNewBranch"
  /\ idx = 2
  /\ Len(pulls) = 1

\* The labels createPullRequest is to send, given the labels the iteration
\* holds when it is called.
LabelsToSend ==
  heap[inputs.labels]
    \o (IF inputs.inherit_labels
        THEN SelectSeq(pull_request.labels, LAMBDA l : l # branch)
        ELSE <<>>)

\* C23: createPullRequest sends, in one addLabels call right after the
\* creation, the iteration's labels followed, when inheritance is on, by the
\* labels of the triggering pull request other than the name of the target
\* branch, and with inheritance off the iteration's labels alone; the call is
\* made exactly when that list is not empty.
C23_LabelInheritance ==
  [][pc = "openPullRequest"
       => /\ \A i \in 1..Len(api') :
               api'[i].call = "addLabels"
                 => (i = 2 /\ api'[i].list = LabelsToSend /\ LabelsToSend # <<>>)
          /\ (Len(api') >= 2 \/ ~failed'.set)
               => (LabelsToSend # <<>>
                     <=> (Len(api') >= 2 /\ api'[2].call = "addLabels"))]_vars

\* With inheritance on, the pull request for r/1.1.0 got the configured label
\* and the inherited one, and not the label named like the branch.
C23_Witness ==
  /\ step = "openPullRequest"
  /\ inputs.inherit_labels
  /\ branch = Branch110
  /\ pull_request.labels = <<Str("bug"), Branch110>>
  /\ Len(api) >= 2
  /\ api[2].call = "addLabels"
  /\ api[2].list = <<Str("bug"), Str("bug")>>

\* openPullRequest was the last step of run.
AfterOpenPullRequest == step = "openPullRequest"

\* The error text says that the author cannot be asked for a review.
IsSelfReviewError(message) ==
  \E i \in 1..Len(message) :
     message[i] = "Review cannot be requested from pull request author"

\* C24: a reviewer or team-reviewer request rejected with the self-review
\* text only gives a warning: the pull request created stays, nothing is
\* raised and run goes on with the next branch; an addLabels, addAssignees,
\* reviewer or team-reviewer call rejected with another text raises that
\* error, which fails the run.
C24_SelfReviewSwallowed ==
  AfterOpenPullRequest
    => /\ (/\ hostError.call \in {"requestReviewers", "requestTeamReviewers"}
           /\ IsSelfReviewError(hostError.message))
            => /\ ~failed.set
               /\ pc = "forOf"
               /\ api[Len(api)].call = "warning"
               /\ Len(pulls) = idx
               /\ pulls[idx].head = prBranch
       /\ (/\ hostError.call \in {"addLabels", "addAssignees", "requestReviewers",
                                  "requestTeamReviewers"}
           /\ ~IsSelfReviewError(hostError.message))
            => /\ failed.set
               /\ failed.message = hostError.message
               /\ pc = "done"
               /\ api[Len(api)].call = hostError.call

\* The team-reviewer request was rejected with the self-review text and the
\* run went on.
C24_Witness ==
  /\ AfterOpenPullRequest
  /\ hostError.call = "requestTeamReviewers"
  /\ IsSelfReviewError(hostError.message)
  /\ pc = "forOf"
  /\ Len(pulls) = idx

\* C25 as stated: with team reviewers configured, once creation, labels and
\* assignees succeeded the team-reviewer request is made, also when the
\* reviewer request before it was rejected with the self-review text.
C25_TeamReviewersAlwaysRequested ==
  (/\ AfterOpenPullRequest
   /\ Len(inputs.teamReviewers) > 0
   /\ hostError.call \notin {"create", "addLabels", "addAssignees"}
   /\ ~failed.set)
    => \E i \in 1..Len(api) : api[i].call = "requestTeamReviewers"

ListingReturned == cat.fn = "getAllBranches" /\ ~cat.threw

\* C27: getAllBranches returns the names of the branches the remote listed,
\* one per line `'origin/<name>'` of the stdout, in the order listed, without
\* the quotes and without `origin/`, and without an entry for the empty line
\* after the last newline; an empty stdout gives the empty list.
C27_ListBranchesParses ==
  ListingReturned
    => /\ cat.branches = cat.remote
       /\ cat.stdout = <<>> => cat.branches = <<>>
       /\ \A i \in 1..Len(cat.branches) :
            /\ cat.branches[i] # <<>>
            /\ \A k \in 1..Len(cat.branches[i]) :
                 cat.branches[i][k] \notin {"'", "origin/", "\n"}

\* Two lines were listed and came back as two names, in that order.
C27_Witness ==
  /\ ListingReturned
  /\ cat.stdout = <<"'", "origin/", "r", "/", "2", ".", "0", ".", "0", "'", "\n",
                    "'", "origin/", "r", "/", "1", ".", "1", ".", "0", "'", "\n">>
  /\ cat.branches = <<Branch200, Branch110>>

\* C28: in an iteration the cherry-pick is next only right after the
\* checkout of the iteration succeeded, the push only right after a
\* cherry-pick that was not Fatal and raised nothing, the publication only
\* right after the push of the iteration's PR branch succeeded; a branch
\* whose cherry-pick raised has no pull request.
C28_StepsGatedBySuccess ==
  /\ pc = "cherryPick"
       => /\ step = "createNewBranch"
          /\ ~failed.set
          /\ CountKind("checkout") = idx
          /\ Kind(cmds[Len(cmds)]) = "checkout"
  /\ pc = "pushNewBranch"
       => /\ step = "cherryPick"
          /\ ~failed.set
          /\ ~OutcomeFatal
          /\ CountKind("cherry-pick") = idx
  /\ pc = "openPullRequest"
       => /\ step = "pushNewBranch"
          /\ ~failed.set
          /\ CountKind("push") = idx
          /\ cmds[Len(cmds)][4] = prBranch
          /\ Kind(cmds[Len(cmds)]) = "push"
  /\ Len(pulls) <= CountKind("push")
  /\ CountKind("push") <= CountKind("cherry-pick")
  /\ CountKind("cherry-pick") <= CountKind("checkout")
  /\ (failed.set /\ step = "cherryPick")
       => /\ Len(pulls) = idx - 1
          /\ CountKind("push") = idx - 1
          /\ \A i \in 1..Len(pulls) : pulls[i].base # branch

\* The cherry-pick of the second branch was Fatal: the first branch has its
\* pull request, the second has neither push nor pull request.
C28_Witness ==
  /\ failed.set
  /\ step = "cherryPick"
  /\ OutcomeFatal
  /\ idx = 2
  /\ Len(pulls) = 1
  /\ CountKind("push") = 1

\* The position in the git log of the cherry-pick of the i-th branch.
CherryPickIndex(i) ==
  CHOOSE p \in 1..Len(cmds) :
    /\ Kind(cmds[p]) = "cherry-pick"
    /\ Cardinality({q \in 1..p : Kind(cmds[q]) = "cherry-pick"}) = i

\* The cherry-pick of the i-th branch ended in Conflict: it was followed by
\* the staging and the commit that leave the conflict in.
ConflictAt(i) ==
  /\ CherryPickIndex(i) + 2 <= Len(cmds)
  /\ Kind(cmds[CherryPickIndex(i) + 1]) = "add"
  /\ Kind(cmds[CherryPickIndex(i) + 2]) = "commit"

IsLabelled(pull, label) == \E j \in 1..Len(pull.labels) : pull.labels[j] = label

\* createPullRequest returned for the i-th branch: none of its calls was
\* rejected with an error that fails the run.
PublicationCompleted(i) == i < idx \/ ~(failed.set /\ step = "openPullRequest")

\* C29: in a run configured without the label 'conflict', with inheritance
\* off and a triggering pull request that is not a draft, the pull request of
\* a branch is created as draft exactly when the cherry-pick of that branch
\* ended in Conflict, it carries the label 'conflict' only then, and it does
\* carry it then once its publication completed; the conflict of one branch
\* leaves the pull requests of the other branches unmarked.
C29_ConflictMarksOwnBranchOnly ==
  (/\ ~pull_request.draft
   /\ ~inputs.inherit_labels
   /\ \A j \in 1..Len(labelsInput) : labelsInput[j] # <<"conflict">>)
    => \A i \in 1..Len(pulls) :
         /\ pulls[i].base = branches[i]
         /\ pulls[i].draft <=> ConflictAt(i)
         /\ IsLabelled(pulls[i], <<"conflict">>) => ConflictAt(i)
         /\ (ConflictAt(i) /\ PublicationCompleted(i))
              => IsLabelled(pulls[i], <<"conflict">>)

\* The first branch had a conflict and the second had none: only the first
\* pull request is a draft labelled 'conflict'.
C29_Witness ==
  /\ ~pull_request.draft
  /\ ~inputs.inherit_labels
  /\ Len(pulls) = 2
  /\ ConflictAt(1)
  /\ ~ConflictAt(2)
  /\ pulls[1].draft
  /\ IsLabelled(pulls[1], <<"conflict">>)
  /\ ~pulls[2].draft
  /\ ~IsLabelled(pulls[2], <<"conflict">>)

\* C30: in a fan-out run the local branches created for two different target
\* branches have different names.
C30_DistinctPrBranchNames ==
  inputs.targetNextBranches
    => \A i \in 1..CountKind("checkout"), j \in 1..CountKind("checkout") :
         branches[i] # branches[j]
           => CmdsOfKind("checkout")[i][3] # CmdsOfKind("checkout")[j][3]

\* C31: under leave-unresolved a cherry-pick with exit code 0 whose error
\* text holds neither the conflict marker nor the empty-commit marker is a
\* clean success: nothing is raised, cherryPick issues no further git call,
\* labels and draft stay as the loop head set them, and the push of the
\* iteration is next.
C31_UnresolvedCleanSuccess ==
  (/\ AfterCherryPick
   /\ inputs.unresolvedConflict
   /\ result.exitCode = 0
   /\ \A i \in 1..Len(result.stderr) :
        /\ result.stderr[i] # CHERRYPICK_UNRESOLVED_CONFLICT
        /\ result.stderr[i] # CHERRYPICK_EMPTY)
    => /\ ~failed.set
       /\ FollowUps = <<>>
       /\ Kind(cmds[Len(cmds)]) = "cherry-pick"
       /\ IterationStateUntouched
       /\ pc = "pushNewBranch"

\* Under leave-unresolved git wrote an error text without a marker and
\* exited with 0: the run is about to push.
C31_Witness ==
  /\ AfterCherryPick
  /\ inputs.unresolvedConflict
  /\ result.exitCode = 0
  /\ result.stderr = <<"fatal: bad object">>
  /\ pc = "pushNewBranch"
  /\ ~failed.set

\* run returned after the loop went through every selected branch.
RunDone ==
  /\ pc = "done"
  /\ ~failed.set
  /\ step = "forOf"
  /\ idx = Len(branches)
  /\ Len(pulls) = Len(branches)
  /\ CountKind("push") = Len(branches)

\* run returned from its catch, at the step that raised.
RunFailed == pc = "done" /\ failed.set /\ step # "forOf"

\* No branch is taken twice and no step is made twice for a branch.
NoRetry ==
  /\ idx <= Len(branches)
  /\ CountKind("config") <= 2
  /\ CountKind("remote") <= 1
  /\ CountKind("fetch") <= 1
  /\ CountKind("for-each-ref") <= 1
  /\ \A k \in {"checkout", "cherry-pick", "add", "commit", "push"} : CountKind(k) <= idx
  /\ Len(pulls) <= idx
  /\ \A i \in 1..CountKind("checkout") :
       CmdsOfKind("checkout")[i][4] = <<"origin/">> \o branches[i]
  /\ \A i \in 1..Len(pulls) : pulls[i].base = branches[i]
  /\ \A i \in 1..Len(api), j \in 1..Len(api) :
       (api[i].call = api[j].call /\ api[i].call # "warning") => i = j

\* C32: when every process invocation and host call returns, a run ends:
\* either it returns after the publication for the last selected branch, or
\* it is reported failed at the first step that raised; and on the way no
\* branch is processed twice and no step is repeated.
C32_RunTerminates == []NoRetry /\ <>[](RunDone \/ RunFailed)

\* A run over two branches ended after publishing both.
C32_Witness ==
  /\ RunDone
  /\ Len(branches) = 2
  /\ Len(pulls) = 2

====
